---- MODULE Spec2Model ----
(***************************************************************************)
(* Punchcard (src/src/lib.rs): a capacity-bounded, claim-once-per-slot     *)
(* record held in one account of an external ledger.                       *)
(*                                                                         *)
(* u64 / usize values are kept at their full 64-bit width as four 16-bit   *)
(* limbs, least significant first, so that the checked arithmetic of       *)
(* bitset_len and space overflows exactly where the code's does.           *)
(***************************************************************************)
EXTENDS Integers, Sequences, FiniteSets, TLC

\* ------------------------------------------------------------ bounds
\* Largest of the consecutive capacities offered to Create.
MaxCapacity == 9
\* Longest list of indices carried by one Claim instruction.
MaxBatch == 2
\* Claim is offered the slots 0..MaxLowSlot and the indices MaxCapacity-1, MaxCapacity.
MaxLowSlot == 1
\* Capacities 0..MaxArith and u64::MAX-MaxArith..u64::MAX are fed to space().
MaxArith == 60
\* Lamports each key holds at the start.
InitialLamports == 100
\* Longest bitset region of the buffers fed to from_bytes().
MaxParseBits == 2

\* ------------------------------------------------------------ 64-bit words
LimbBase == 2 ^ 16
NumLimbs == 64 \div 16

\* the u64 holding the natural number n (n < 2^31)
U64(n) == [i \in 1..NumLimbs |-> IF i = 1 THEN n % LimbBase
                                 ELSE IF i = 2 THEN (n \div LimbBase) % LimbBase
                                 ELSE 0]
\* u64::MAX - k, for k < LimbBase
U64MaxMinus(k) == [i \in 1..NumLimbs |-> IF i = 1 THEN LimbBase - 1 - k ELSE LimbBase - 1]
U64_MAX == U64MaxMinus(0)

\* the natural number a word holds; only used on words below 2^31
Nat32(w) == w[1] + LimbBase * w[2]
FitsNat32(w) == w[3] = 0 /\ w[4] = 0 /\ w[2] < 2 ^ 15

RECURSIVE LimbLess(_, _, _)
\* a < b comparing limbs i..1, most significant first
LimbLess(a, b, i) ==
  IF i = 0 THEN FALSE
  ELSE IF a[i] # b[i] THEN a[i] < b[i]
  ELSE LimbLess(a, b, i - 1)

U64Lt(a, b) == LimbLess(a, b, NumLimbs)
U64Le(a, b) == ~U64Lt(b, a)

RECURSIVE CarryInto(_, _, _)
\* carry entering limb i of a + b (carry 0 enters limb 1)
CarryInto(a, b, i) ==
  IF i = 1 THEN 0
  ELSE (a[i - 1] + b[i - 1] + CarryInto(a, b, i - 1)) \div LimbBase

\* a + b modulo 2^64
WrappingAdd(a, b) ==
  [i \in 1..NumLimbs |-> (a[i] + b[i] + CarryInto(a, b, i)) % LimbBase]
AddOverflows(a, b) == CarryInto(a, b, NumLimbs + 1) = 1

None == [some |-> FALSE]
Some(v) == [some |-> TRUE, val |-> v]

\* u64::checked_add / usize::checked_add
checked_add(a, b) == IF AddOverflows(a, b) THEN None ELSE Some(WrappingAdd(a, b))

\* value / 8 on a 64-bit word
Div8(w) ==
  [i \in 1..NumLimbs |->
     (w[i] \div 8) + (IF i < NumLimbs THEN (w[i + 1] % 8) * (LimbBase \div 8) ELSE 0)]
\* value % 8
Mod8(w) == w[1] % 8

\* usize::try_from(u64): usize is 64 bits wide on the program's target (and on
\* the host the unit tests run on), so every u64 converts.
usize_try_from(capacity) == Some(capacity)

\* ------------------------------------------------------------ capacity arithmetic
PUNCHCARD_HEADER_LEN == 48

\* mutant: capacity + 7 without the overflow check
bitset_len_wrapping(capacity) == Some(Div8(WrappingAdd(capacity, U64(7))))

\* mutant: rounds down instead of up
bitset_len_floor(capacity) == Some(Div8(capacity))

bitset_len(capacity) ==
  LET c == usize_try_from(capacity) IN
  IF ~c.some THEN None
  ELSE LET s == checked_add(c.val, U64(7)) IN
       IF ~s.some THEN None ELSE Some(Div8(s.val))

space(capacity) ==
  LET bits_len == bitset_len(capacity) IN
  IF ~bits_len.some THEN None
  ELSE checked_add(U64(PUNCHCARD_HEADER_LEN), bits_len.val)

\* ------------------------------------------------------------ record layout
Keys == {"A", "B"}
NoKey == "none"
SystemProgram == "system"
ID == "punchcard"

Ok == "Ok"
InvalidAuthority == "InvalidAuthority"
IndexOutOfBounds == "IndexOutOfBounds"
AlreadyClaimed == "AlreadyClaimed"
InvalidCapacity == "InvalidCapacity"
InvalidAccountData == "InvalidAccountData"
MissingRequiredSignature == "MissingRequiredSignature"
IncorrectProgramId == "IncorrectProgramId"
\* the program aborted (a Rust panic): the invocation fails
Panic == "Panic"
\* any error the ledger returns from the CreateAccount call
AllocationFailed == "AllocationFailed"

\* PunchcardHeader { authority, capacity, claimed }
PunchcardHeader(authority, capacity, claimed) ==
  [authority |-> authority, capacity |-> capacity, claimed |-> claimed]
ZeroHeader == PunchcardHeader(NoKey, U64(0), U64(0))

\* align_of::<PunchcardHeader>(): repr(C) with u64 fields
HEADER_ALIGN == 8

\* A byte buffer: len bytes starting at an address that is offset past a
\* multiple of HEADER_ALIGN; when len >= PUNCHCARD_HEADER_LEN the first 48 are
\* the header fields and bits are the bytes that follow them. The ledger
\* places account data on a multiple of HEADER_ALIGN.
EmptyData == [len |-> 0, offset |-> 0, header |-> ZeroHeader, bits |-> <<>>]
\* len zero bytes, as the ledger hands out a new allocation
ZeroedData(len) ==
  [len |-> len, offset |-> 0, header |-> ZeroHeader,
   bits |-> [i \in 1..(IF len > PUNCHCARD_HEADER_LEN THEN len - PUNCHCARD_HEADER_LEN ELSE 0) |-> 0]]

\* ------------------------------------------------------------ Bits
\* self.0[(index / 8) as usize] is inside the slice; outside it the access panics
InSlice(bits, index) == FitsNat32(Div8(index)) /\ Nat32(Div8(index)) < Len(bits)
Mask(index) == 2 ^ Mod8(index)

\* Bits::get, for an index inside the slice
Bits_get(bits, index) == (bits[Nat32(Div8(index)) + 1] \div Mask(index)) % 2 # 0

\* mutant: the byte index is dropped, every bit lands in byte 0
Bits_set_byte0(bits, index) ==
  [bits EXCEPT ![1] = IF (@ \div Mask(index)) % 2 # 0 THEN @ ELSE @ + Mask(index)]

\* mutant: byte = mask, the other bits of the byte are dropped
Bits_set_assign(bits, index) ==
  [bits EXCEPT ![Nat32(Div8(index)) + 1] = Mask(index)]

\* Bits::set, for an index inside the slice: byte |= mask
Bits_set(bits, index) ==
  [bits EXCEPT ![Nat32(Div8(index)) + 1] =
     IF (@ \div Mask(index)) % 2 # 0 THEN @ ELSE @ + Mask(index)]

\* ------------------------------------------------------------ Punchcard
\* mutant: the header is read wherever the buffer starts
split_unaligned(data) ==
  IF data.len < PUNCHCARD_HEADER_LEN
  THEN [err |-> InvalidAccountData]
  ELSE [err |-> Ok, header |-> data.header, bits |-> data.bits]

\* Punchcard::split: the length guard, then bytemuck::try_from_bytes_mut, which
\* refuses a header that does not start on a multiple of its alignment
split(data) ==
  IF data.len < PUNCHCARD_HEADER_LEN
  THEN [err |-> InvalidAccountData]
  ELSE IF data.offset % HEADER_ALIGN # 0
  THEN [err |-> InvalidAccountData]
  ELSE [err |-> Ok, header |-> data.header, bits |-> data.bits]

\* mutant: a bitset region longer than expected is let through
from_bytes_at_least(data) ==
  LET s == split(data) IN
  IF s.err # Ok THEN [err |-> s.err]
  ELSE LET expected_bits_len == bitset_len(s.header.capacity) IN
       IF ~expected_bits_len.some THEN [err |-> InvalidCapacity]
       ELSE IF U64Lt(U64(Len(s.bits)), expected_bits_len.val) THEN [err |-> InvalidAccountData]
       ELSE IF U64Lt(s.header.capacity, s.header.claimed) THEN [err |-> InvalidAccountData]
       ELSE [err |-> Ok, card |-> [header |-> s.header, bits |-> s.bits]]

from_bytes(data) ==
  LET s == split(data) IN
  IF s.err # Ok THEN [err |-> s.err]
  ELSE LET expected_bits_len == bitset_len(s.header.capacity) IN
       IF ~expected_bits_len.some THEN [err |-> InvalidCapacity]
       ELSE IF U64(Len(s.bits)) # expected_bits_len.val THEN [err |-> InvalidAccountData]
       ELSE IF U64Lt(s.header.capacity, s.header.claimed) THEN [err |-> InvalidAccountData]
       ELSE [err |-> Ok, card |-> [header |-> s.header, bits |-> s.bits]]

\* self.header.claimed += 1: the sum modulo 2^64, and at u64::MAX either that
\* (overflow checks off) or an abort (overflow checks on), as the build decides
claimed_add_one(claimed) ==
  {[panic |-> FALSE, val |-> WrappingAdd(claimed, U64(1))]}
    \cup (IF AddOverflows(claimed, U64(1))
          THEN {[panic |-> TRUE, val |-> claimed]}
          ELSE {})

\* mutant: the bit is not consulted before it is set
Punchcard_claim_no_check(card, index) ==
  IF ~InSlice(card.bits, index)
  THEN {[err |-> Panic, card |-> card]}
  ELSE {[err |-> IF a.panic THEN Panic ELSE Ok,
         card |-> [header |-> [card.header EXCEPT !.claimed = a.val],
                   bits |-> Bits_set(card.bits, index)]] :
          a \in claimed_add_one(card.header.claimed)}

\* mutant: the increment lands on capacity, the field next to claimed
Punchcard_claim_bumps_capacity(card, index) ==
  IF ~InSlice(card.bits, index)
  THEN {[err |-> Panic, card |-> card]}
  ELSE IF Bits_get(card.bits, index)
  THEN {[err |-> AlreadyClaimed, card |-> card]}
  ELSE {[err |-> IF a.panic THEN Panic ELSE Ok,
         card |-> [header |-> [card.header EXCEPT !.capacity = a.val],
                   bits |-> Bits_set(card.bits, index)]] :
          a \in claimed_add_one(card.header.capacity)}

\* Punchcard::claim: the outcomes a build can produce, each an error (Ok when
\* none) and the card as the call leaves it. An index outside the bitset
\* aborts the program (slice index panic); the bit is set before claimed is
\* incremented, so an abort on the increment leaves the bit set.
Punchcard_claim(card, index) ==
  IF ~InSlice(card.bits, index)
  THEN {[err |-> Panic, card |-> card]}
  ELSE IF Bits_get(card.bits, index)
  THEN {[err |-> AlreadyClaimed, card |-> card]}
  ELSE {[err |-> IF a.panic THEN Panic ELSE Ok,
         card |-> [header |-> [card.header EXCEPT !.claimed = a.val],
                   bits |-> Bits_set(card.bits, index)]] :
          a \in claimed_add_one(card.header.claimed)}

RECURSIVE ClaimLoop_off_by_one(_, _)
\* mutant: the bounds check is i > capacity
ClaimLoop_off_by_one(card, indices) ==
  IF indices = <<>> THEN {[err |-> Ok, card |-> card]}
  ELSE LET i == Head(indices) IN
       IF U64Lt(card.header.capacity, i)
       THEN {[err |-> IndexOutOfBounds, card |-> card]}
       ELSE UNION {IF r.err # Ok THEN {r}
                   ELSE ClaimLoop_off_by_one(r.card, Tail(indices)) :
                     r \in Punchcard_claim(card, i)}

RECURSIVE ClaimLoop_bit_first(_, _)
\* mutant: the bit is claimed before the index is compared with capacity
ClaimLoop_bit_first(card, indices) ==
  IF indices = <<>> THEN {[err |-> Ok, card |-> card]}
  ELSE LET i == Head(indices) IN
       UNION {IF r.err # Ok THEN {r}
              ELSE IF U64Le(card.header.capacity, i)
              THEN {[err |-> IndexOutOfBounds, card |-> r.card]}
              ELSE ClaimLoop_bit_first(r.card, Tail(indices)) :
                r \in Punchcard_claim(card, i)}

RECURSIVE ClaimLoop(_, _)
\* for &i in indices { bounds check; card.claim(i)? }: the outcomes of the
\* loop, each the card as it leaves it in memory and the error it returned
\* with (Ok at the end)
ClaimLoop(card, indices) ==
  IF indices = <<>> THEN {[err |-> Ok, card |-> card]}
  ELSE LET i == Head(indices) IN
       IF U64Le(card.header.capacity, i)
       THEN {[err |-> IndexOutOfBounds, card |-> card]}
       ELSE UNION {IF r.err # Ok THEN {r}
                   ELSE ClaimLoop(r.card, Tail(indices)) :
                     r \in Punchcard_claim(card, i)}

\* ------------------------------------------------------------ ledger
VARIABLES
  punchcard,   \* the account at the record's address: owner, lamports, data
  lamports,    \* balance of each key's account
  last,        \* the latest invocation: inputs, state before, memory at return, result
  calc         \* the latest capacity given to space() and what it returned

vars == <<punchcard, lamports, last, calc>>

\* an address no record lives at: owned by the system program, empty, unfunded
ClosedAccount == [owner |-> SystemProgram, lamports |-> 0, data |-> EmptyData]

\* Rent::minimum_balance(space): the ledger's deposit for space bytes
minimum_balance(data_len) == data_len

\* CreateAccount{from, to, lamports, space, owner}.invoke(): the ledger refuses
\* (grant = FALSE stands for any refusal of its own, such as a missing
\* signature; an address in use and a payer short of the deposit are refused
\* too), or moves the deposit and hands out zeroed bytes owned by owner.
CreateAccount(acct, lam, from, rent, space_, owner, grant) ==
  IF /\ grant
     /\ acct = ClosedAccount
     /\ FitsNat32(space_)
     /\ lam[from] >= rent
  THEN [err |-> Ok,
        punchcard |-> [owner |-> owner, lamports |-> rent, data |-> ZeroedData(Nat32(space_))],
        lamports |-> [lam EXCEPT ![from] = @ - rent]]
  ELSE [err |-> AllocationFailed, punchcard |-> acct, lamports |-> lam]

\* ------------------------------------------------------------ processor
\* fn create after the size is known: allocate, then write header and bitset
create_sized(acct, lam, payer, capacity, size, grant) ==
  LET rent == IF FitsNat32(size) THEN minimum_balance(Nat32(size)) ELSE 0
      made == CreateAccount(acct, lam, payer, rent, size, ID, grant) IN
  IF made.err # Ok
  THEN [err |-> made.err, punchcard |-> acct, lamports |-> lam, asked |-> TRUE]
  ELSE LET s == split(made.punchcard.data) IN
       IF s.err # Ok
       THEN [err |-> s.err, punchcard |-> made.punchcard,
             lamports |-> made.lamports, asked |-> TRUE]
       ELSE [err |-> Ok,
             punchcard |-> [made.punchcard EXCEPT
                !.data.header = PunchcardHeader(payer, capacity, U64(0)),
                !.data.bits = [i \in 1..Len(s.bits) |-> 0]],
             lamports |-> made.lamports, asked |-> TRUE]

\* mutant: an overflowing capacity is taken to be unreachable and aborts
create_unwrap(acct, lam, payer, capacity, grant) ==
  LET sp == space(capacity) IN
  IF ~sp.some
  THEN [err |-> Panic, punchcard |-> acct, lamports |-> lam, asked |-> FALSE]
  ELSE create_sized(acct, lam, payer, capacity, sp.val, grant)

\* fn create: what the invocation returns and the accounts as it leaves them;
\* asked tells whether the ledger was asked for an allocation
create(acct, lam, payer, capacity, grant) ==
  LET sp == space(capacity) IN
  IF ~sp.some
  THEN [err |-> InvalidCapacity, punchcard |-> acct, lamports |-> lam, asked |-> FALSE]
  ELSE create_sized(acct, lam, payer, capacity, sp.val, grant)

\* mutant: the full record is left open
CloseIfFull_never(acct, lam, authority, card) ==
  [punchcard |-> [acct EXCEPT !.data.header = card.header, !.data.bits = card.bits],
   lamports |-> lam]

\* mutant: the record's lamports are zeroed before they are read
CloseIfFull_burn(acct, lam, authority, card) ==
  IF card.header.claimed = card.header.capacity
  THEN [punchcard |-> ClosedAccount, lamports |-> lam]
  ELSE [punchcard |-> [acct EXCEPT !.data.header = card.header, !.data.bits = card.bits],
        lamports |-> lam]

\* if claimed == capacity { move the lamports; zero the data; close }: close()
\* leaves the account empty, unfunded and owned by the system program
CloseIfFull(acct, lam, authority, card) ==
  IF card.header.claimed = card.header.capacity
  THEN [punchcard |-> ClosedAccount,
        lamports |-> [lam EXCEPT ![authority] = @ + acct.lamports]]
  ELSE [punchcard |-> [acct EXCEPT !.data.header = card.header, !.data.bits = card.bits],
        lamports |-> lam]

\* mutant: an error of the loop ends it without failing the invocation
claim_indices_swallow(acct, lam, authority, card, indices) ==
  {LET done == CloseIfFull(acct, lam, authority, run.card) IN
   [err |-> Ok, punchcard |-> done.punchcard, lamports |-> done.lamports] :
     run \in ClaimLoop(card, indices)}

\* fn claim from the loop on: the indices in order, then the close
claim_indices(acct, lam, authority, card, indices) ==
  {IF run.err # Ok
   THEN [err |-> run.err,
         punchcard |-> [acct EXCEPT !.data.header = run.card.header,
                                    !.data.bits = run.card.bits],
         lamports |-> lam]
   ELSE LET done == CloseIfFull(acct, lam, authority, run.card) IN
        [err |-> Ok, punchcard |-> done.punchcard, lamports |-> done.lamports] :
     run \in ClaimLoop(card, indices)}

\* mutant: the signer is not compared with the header's authority
claim_any_signer(acct, lam, authority, is_signer, indices) ==
  IF ~is_signer
  THEN {[err |-> MissingRequiredSignature, punchcard |-> acct, lamports |-> lam]}
  ELSE IF acct.owner # ID
  THEN {[err |-> IncorrectProgramId, punchcard |-> acct, lamports |-> lam]}
  ELSE LET parsed == from_bytes(acct.data) IN
       IF parsed.err # Ok
       THEN {[err |-> parsed.err, punchcard |-> acct, lamports |-> lam]}
       ELSE claim_indices(acct, lam, authority, parsed.card, indices)

\* mutant: the record's owner is not compared with the program id
claim_no_owner_check(acct, lam, authority, is_signer, indices) ==
  IF ~is_signer
  THEN {[err |-> MissingRequiredSignature, punchcard |-> acct, lamports |-> lam]}
  ELSE LET parsed == from_bytes(acct.data) IN
       IF parsed.err # Ok
       THEN {[err |-> parsed.err, punchcard |-> acct, lamports |-> lam]}
       ELSE IF parsed.card.header.authority # authority
       THEN {[err |-> InvalidAuthority, punchcard |-> acct, lamports |-> lam]}
       ELSE claim_indices(acct, lam, authority, parsed.card, indices)

\* fn claim: the outcomes of the invocation, each what it returns and the
\* accounts as it leaves them (on an error, as they are in memory when it
\* returns)
claim(acct, lam, authority, is_signer, indices) ==
  IF ~is_signer
  THEN {[err |-> MissingRequiredSignature, punchcard |-> acct, lamports |-> lam]}
  ELSE IF acct.owner # ID
  THEN {[err |-> IncorrectProgramId, punchcard |-> acct, lamports |-> lam]}
  ELSE LET parsed == from_bytes(acct.data) IN
       IF parsed.err # Ok
       THEN {[err |-> parsed.err, punchcard |-> acct, lamports |-> lam]}
       ELSE IF parsed.card.header.authority # authority
       THEN {[err |-> InvalidAuthority, punchcard |-> acct, lamports |-> lam]}
       ELSE claim_indices(acct, lam, authority, parsed.card, indices)

\* process returns the ProgramResult to the ledger, which keeps the accounts as
\* the invocation left them on Ok and as they were before it on any error.
Commit(out, before) == IF out.err = Ok THEN out ELSE before

\* ------------------------------------------------------------ inputs
\* capacities offered to Create: the small ones, one twice as large (every
\* small index is a slot of it), and the ones around the overflow edge of
\* space()
CreateCapacities ==
  {U64(n) : n \in 0..MaxCapacity} \cup {U64(2 * MaxCapacity)}
    \cup {U64MaxMinus(k) : k \in {0, 6, 7, 8}}
\* indices offered to Claim: the low slots, the last slot of a record of
\* MaxCapacity (it lies in its last byte), the first index past it, and
\* u64::MAX
ClaimIndices ==
  {U64(n) : n \in 0..MaxLowSlot}
    \cup {U64(MaxCapacity - 1), U64(MaxCapacity)}
    \cup {U64_MAX}
RECURSIVE SeqsUpTo(_, _)
SeqsUpTo(S, n) ==
  IF n = 0 THEN {<<>>}
  ELSE LET shorter == SeqsUpTo(S, n - 1) IN
       shorter \cup {Append(q, x) : q \in {r \in shorter : Len(r) = n - 1}, x \in S}
Batches == SeqsUpTo(ClaimIndices, MaxBatch)

\* ------------------------------------------------------------ state machine
\* The ledger runs one invocation at a time and surfaces its result before the
\* next one: last is "none" exactly when no result is waiting to be surfaced.
Idle == [op |-> "none"]

NoCalc == [capacity |-> U64(0), out |-> None, ran |-> FALSE]

Init ==
  /\ punchcard = ClosedAccount
  /\ lamports = [k \in Keys |-> InitialLamports]
  /\ last = Idle
  /\ calc = NoCalc

Create(payer, capacity, grant) ==
  LET before == [punchcard |-> punchcard, lamports |-> lamports]
      out == create(punchcard, lamports, payer, capacity, grant)
      kept == Commit(out, before) IN
  /\ last = Idle
  /\ punchcard' = kept.punchcard
  /\ lamports' = kept.lamports
  /\ last' = [op |-> "Create", payer |-> payer, capacity |-> capacity,
              err |-> out.err, asked |-> out.asked,
              pre |-> punchcard, preLamports |-> lamports, memory |-> out.punchcard]
  /\ UNCHANGED calc

Claim(authority, is_signer, indices) ==
  /\ last = Idle
  /\ \E out \in claim(punchcard, lamports, authority, is_signer, indices) :
       LET before == [punchcard |-> punchcard, lamports |-> lamports]
           kept == Commit(out, before) IN
       /\ punchcard' = kept.punchcard
       /\ lamports' = kept.lamports
       /\ last' = [op |-> "Claim", authority |-> authority, is_signer |-> is_signer,
                   indices |-> indices, err |-> out.err,
                   pre |-> punchcard, preLamports |-> lamports,
                   memory |-> out.punchcard]
  /\ UNCHANGED calc

\* the ledger hands the result to the caller
Return ==
  /\ last # Idle
  /\ last' = Idle
  /\ UNCHANGED <<punchcard, lamports, calc>>

Next ==
  \/ \E payer \in Keys, capacity \in CreateCapacities, grant \in BOOLEAN :
        Create(payer, capacity, grant)
  \/ \E authority \in Keys, is_signer \in BOOLEAN, indices \in Batches :
        Claim(authority, is_signer, indices)
  \/ Return

Spec == Init /\ [][Next]_vars

\* ------------------------------------------------------------ space() on its own
\* words whose low limbs are all ones but for k: adding 7 carries across limbs
OnesBelow(j, k) ==
  [i \in 1..NumLimbs |-> IF i = 1 THEN LimbBase - 1 - k
                         ELSE IF i <= j THEN LimbBase - 1 ELSE 0]
ArithCapacities ==
  {U64(n) : n \in 0..MaxArith}
    \cup {U64MaxMinus(k) : k \in 0..MaxArith}
    \cup {OnesBelow(j, k) : j \in 1..(NumLimbs - 1), k \in 0..8}

SpaceInit ==
  /\ punchcard = ClosedAccount
  /\ lamports = [k \in Keys |-> InitialLamports]
  /\ last = Idle
  /\ \E c \in ArithCapacities : calc = [capacity |-> c, out |-> None, ran |-> FALSE]

ComputeSpace ==
  /\ ~calc.ran
  /\ calc' = [calc EXCEPT !.out = space(calc.capacity), !.ran = TRUE]
  /\ UNCHANGED <<punchcard, lamports, last>>

SpaceNext == ComputeSpace

SpaceSpec == SpaceInit /\ [][SpaceNext]_vars

\* ------------------------------------------------------------ reading a state
IsClaim == last.op = "Claim"
IsCreate == last.op = "Create"
Live(acct) == acct.owner = ID
CapacityOf(acct) == Nat32(acct.data.header.capacity)
ClaimedOf(acct) == Nat32(acct.data.header.claimed)
\* bit n of the bitset, counted from the bytes: byte n/8, mask 1 << (n%8)
SlotSet(acct, n) ==
  /\ n \div 8 < Len(acct.data.bits)
  /\ (acct.data.bits[(n \div 8) + 1] \div (2 ^ (n % 8))) % 2 = 1
BitPositions(acct) == 0..(8 * Len(acct.data.bits) - 1)

\* the latest invocation was a Claim signed by the authority the record names
Authorized ==
  /\ IsClaim
  /\ last.is_signer
  /\ Live(last.pre)
  /\ last.pre.data.header.authority = last.authority

Pos == 1..Len(last.indices)
At(j) == last.indices[j]
InRangeAt(j) == FitsNat32(At(j)) /\ Nat32(At(j)) < CapacityOf(last.pre)
SlotAt(j) == Nat32(At(j))
\* the bit of index j is set when its turn comes: before the invocation, or by
\* an equal index earlier in the batch
TakenAt(j) ==
  /\ InRangeAt(j)
  /\ \/ SlotSet(last.pre, SlotAt(j))
     \/ \E i \in 1..(j - 1) : At(i) = At(j)
OffendsAt(j) == ~InRangeAt(j) \/ TakenAt(j)
CleanBatch == \A j \in Pos : ~OffendsAt(j)
FirstOffender == CHOOSE j \in Pos : OffendsAt(j) /\ \A i \in 1..(j - 1) : ~OffendsAt(i)
ErrorOfFirstOffender ==
  IF InRangeAt(FirstOffender) THEN AlreadyClaimed ELSE IndexOutOfBounds
BatchSlots == {SlotAt(j) : j \in {i \in Pos : InRangeAt(i)}}
RecordUnchanged == punchcard = last.pre /\ lamports = last.preLamports
\* the persisted bitset is the one before plus exactly the batch's slots, and
\* claimed has grown by the length of the batch
BatchApplied ==
  /\ Live(punchcard)
  /\ punchcard.data.len = last.pre.data.len
  /\ \A n \in BitPositions(last.pre) :
        SlotSet(punchcard, n) <=> (SlotSet(last.pre, n) \/ n \in BatchSlots)
  /\ ClaimedOf(punchcard) = ClaimedOf(last.pre) + Len(last.indices)
FillsRecord == ClaimedOf(last.pre) + Len(last.indices) = CapacityOf(last.pre)

\* ------------------------------------------------------------ C1
\* C1 as stated: a Claim by the recorded authority whose indices are all below
\* capacity, pairwise distinct and unclaimed succeeds, and afterwards the record
\* holds exactly those bits newly set, every other bit as before, and claimed
\* larger by the length of the batch.
C1_AsStated ==
  (Authorized /\ CleanBatch /\ Len(last.indices) > 0) => (last.err = Ok /\ BatchApplied)

\* C1 (amended): such a Claim succeeds; when it leaves claimed below capacity
\* the record afterwards holds exactly those bits newly set (bit i at byte i/8,
\* mask 1 << (i%8)), every other bit as before, and claimed larger by the
\* length of the batch; when it brings claimed to capacity the record is closed.
C1_BatchSetsExactlyItsBits ==
  (Authorized /\ CleanBatch) =>
     /\ last.err = Ok
     /\ IF FillsRecord THEN punchcard = ClosedAccount ELSE BatchApplied

\* a two-index batch whose slots lie in different bytes has been applied
C1_Witness ==
  /\ Authorized /\ CleanBatch
  /\ Len(last.indices) = 2
  /\ SlotAt(1) \div 8 # SlotAt(2) \div 8
  /\ last.err = Ok
  /\ Live(punchcard)
  /\ ClaimedOf(last.pre) > 0

\* ------------------------------------------------------------ C2
\* C2 as stated: a Claim by the authority that includes an index whose bit is
\* already set (by an earlier invocation or earlier in the batch) fails with
\* AlreadyClaimed, and claimed is unchanged.
C2_AsStated ==
  (Authorized /\ \E j \in Pos : TakenAt(j)) =>
     /\ last.err = AlreadyClaimed
     /\ ClaimedOf(punchcard) = ClaimedOf(last.pre)

\* C2 (amended): such a Claim fails, with AlreadyClaimed unless an index at or
\* above capacity comes before the first already-set index of the batch, and
\* then with IndexOutOfBounds; claimed and the bitset are unchanged.
C2_ClaimedAtMostOnce ==
  (Authorized /\ \E j \in Pos : TakenAt(j)) =>
     /\ last.err = ErrorOfFirstOffender
     /\ RecordUnchanged
     /\ ClaimedOf(punchcard) = ClaimedOf(last.pre)

\* the same free slot twice in one batch, on a record an earlier Claim punched
C2_Witness ==
  /\ Authorized
  /\ Len(last.indices) = 2
  /\ At(1) = At(2)
  /\ InRangeAt(1) /\ ~SlotSet(last.pre, SlotAt(1))
  /\ ClaimedOf(last.pre) > 0
  /\ last.err = AlreadyClaimed

\* ------------------------------------------------------------ C3
\* C3 as stated: a Claim by the authority containing any index at or above
\* capacity fails with IndexOutOfBounds and leaves bitset and claimed unchanged.
C3_AsStated ==
  (Authorized /\ \E j \in Pos : ~InRangeAt(j)) =>
     /\ last.err = IndexOutOfBounds
     /\ punchcard.data = last.pre.data

\* C3 (amended): such a Claim fails, with IndexOutOfBounds unless an already
\* claimed (or repeated) index comes before the first index at or above
\* capacity, and then with AlreadyClaimed; bitset and claimed are unchanged.
C3_OutOfBoundsRejected ==
  (Authorized /\ \E j \in Pos : ~InRangeAt(j)) =>
     /\ last.err = ErrorOfFirstOffender
     /\ punchcard.data = last.pre.data

\* the index equal to capacity, after a valid one, has been refused
C3_Witness ==
  /\ Authorized
  /\ Len(last.indices) = 2
  /\ InRangeAt(1) /\ ~TakenAt(1)
  /\ FitsNat32(At(2)) /\ Nat32(At(2)) = CapacityOf(last.pre)
  /\ last.err = IndexOutOfBounds

\* ------------------------------------------------------------ C4
\* C4: a Claim signed by a key other than the authority in the record's header
\* fails with InvalidAuthority and leaves header, bitset and balances unchanged,
\* whatever its indices.
C4_WrongAuthorityRejected ==
  (IsClaim /\ last.is_signer /\ Live(last.pre)
     /\ last.pre.data.header.authority # last.authority) =>
        /\ last.err = InvalidAuthority
        /\ RecordUnchanged

\* a batch the authority could have claimed, sent by the other key
C4_Witness ==
  /\ IsClaim /\ last.is_signer /\ Live(last.pre)
  /\ last.pre.data.header.authority # last.authority
  /\ Len(last.indices) = 2 /\ CleanBatch
  /\ last.err = InvalidAuthority

\* ------------------------------------------------------------ C5
\* C5: a Claim batch that fails at some index (IndexOutOfBounds or
\* AlreadyClaimed), also after a prefix of valid unclaimed indices, leaves the
\* persisted bitset, claimed and balances as they were before the invocation.
C5_BatchIsAllOrNothing ==
  (Authorized /\ ~CleanBatch) =>
     /\ last.err \in {IndexOutOfBounds, AlreadyClaimed}
     /\ RecordUnchanged
     /\ \A j \in 1..(FirstOffender - 1) : ~SlotSet(punchcard, SlotAt(j))

\* the batch failed at its second index with the first one's bit set in memory
C5_Witness ==
  /\ Authorized /\ ~CleanBatch
  /\ FirstOffender = 2
  /\ SlotSet(last.memory, SlotAt(1))
  /\ last.memory # last.pre
  /\ punchcard = last.pre

\* ------------------------------------------------------------ C6
\* every slot of the record before is claimed once the batch is applied
AllSlotsClaimedAfter ==
  \A n \in 0..(CapacityOf(last.pre) - 1) : SlotSet(last.pre, n) \/ n \in BatchSlots

\* C6: a successful Claim closes the record (owner released, bytes gone,
\* unfunded) exactly when claimed equals capacity after its indices, which is
\* exactly when every slot 0..capacity-1 is claimed; otherwise the record stays
\* open as mutated, with the same authority and capacity and a free slot left.
C6_ClosedIffFull ==
  (IsClaim /\ last.err = Ok) =>
     /\ (punchcard = ClosedAccount) <=> FillsRecord
     /\ (punchcard = ClosedAccount) <=> AllSlotsClaimedAfter
     /\ ~FillsRecord =>
          /\ BatchApplied
          /\ punchcard.data.header.authority = last.pre.data.header.authority
          /\ punchcard.data.header.capacity = last.pre.data.header.capacity
          /\ ClaimedOf(punchcard) < CapacityOf(punchcard)
          /\ \E n \in 0..(CapacityOf(punchcard) - 1) : ~SlotSet(punchcard, n)

\* the last free slot of a record punched by an earlier Claim has been claimed
C6_Witness ==
  /\ IsClaim /\ last.err = Ok
  /\ CapacityOf(last.pre) >= 2
  /\ ClaimedOf(last.pre) >= 1
  /\ Len(last.indices) >= 1
  /\ punchcard = ClosedAccount

\* ------------------------------------------------------------ C7
ClosedByLast == IsClaim /\ last.err = Ok /\ punchcard = ClosedAccount
RECURSIVE SumOver(_, _)
SumOver(f, S) ==
  IF S = {} THEN 0 ELSE LET k == CHOOSE x \in S : TRUE IN f[k] + SumOver(f, S \ {k})

\* C7: a Claim that closes the record moves the record's whole balance to the
\* authority: the authority gains exactly what the record held, the record
\* holds 0, no other balance moves and the total is unchanged; a Claim that
\* does not close the record changes no balance.
C7_CloseReturnsDeposit ==
  IsClaim =>
     IF ClosedByLast
     THEN /\ lamports[last.authority] = last.preLamports[last.authority] + last.pre.lamports
          /\ punchcard.lamports = 0
          /\ \A k \in Keys \ {last.authority} : lamports[k] = last.preLamports[k]
          /\ SumOver(lamports, Keys) + punchcard.lamports
               = SumOver(last.preLamports, Keys) + last.pre.lamports
     ELSE /\ lamports = last.preLamports
          /\ punchcard.lamports = last.pre.lamports

\* a funded record has been closed and its deposit is with the authority
C7_Witness ==
  /\ ClosedByLast
  /\ last.pre.lamports > 0
  /\ Len(last.indices) >= 1
  /\ lamports[last.authority] = InitialLamports

\* ------------------------------------------------------------ C8
\* C8: a successful Create(capacity) leaves a record owned by the program whose
\* header has authority = the payer, capacity = the requested capacity and
\* claimed = 0, followed by exactly ceil(capacity/8) bitset bytes, all zero.
C8_CreateInitialisesRecord ==
  (IsCreate /\ last.err = Ok) =>
     /\ Live(punchcard)
     /\ punchcard.data.header.authority = last.payer
     /\ punchcard.data.header.capacity = last.capacity
     /\ punchcard.data.header.claimed = U64(0)
     /\ FitsNat32(last.capacity)
     /\ Len(punchcard.data.bits) = (Nat32(last.capacity) + 7) \div 8
     /\ 8 * Len(punchcard.data.bits) >= Nat32(last.capacity)
     /\ punchcard.data.len = PUNCHCARD_HEADER_LEN + Len(punchcard.data.bits)
     /\ \A i \in 1..Len(punchcard.data.bits) : punchcard.data.bits[i] = 0

\* a record whose capacity is not a multiple of 8 and needs two bytes exists
C8_Witness ==
  /\ IsCreate /\ last.err = Ok
  /\ last.payer = "B"
  /\ Nat32(last.capacity) % 8 # 0
  /\ Len(punchcard.data.bits) = 2

\* ------------------------------------------------------------ C9
\* capacity + 7 does not fit 64 bits
SizeOverflows(capacity) == U64Lt(U64MaxMinus(7), capacity)

\* C9: Create with a capacity whose size computation overflows returns
\* InvalidCapacity (no abort) without asking the ledger for an allocation; a
\* refused allocation is returned as the ledger's error; either way no record
\* has come to exist at the address and no account or balance has changed.
C9_CreateIsAllOrNothing ==
  IsCreate =>
     /\ SizeOverflows(last.capacity) => (last.err = InvalidCapacity /\ ~last.asked)
     /\ ~SizeOverflows(last.capacity) => (last.asked /\ last.err \in {Ok, AllocationFailed})
     /\ last.err # Ok =>
          /\ RecordUnchanged
          /\ last.pre = ClosedAccount => punchcard = ClosedAccount
     /\ last.err = Ok => last.pre = ClosedAccount

\* the largest capacity has been refused at a free address
C9_Witness ==
  /\ IsCreate
  /\ last.capacity = U64_MAX
  /\ last.err = InvalidCapacity
  /\ last.pre = ClosedAccount
  /\ punchcard = ClosedAccount

\* ------------------------------------------------------------ C10
\* arithmetic on five limbs, wide enough for 8 * (2^64 - 1)
Wide(w) == [i \in 1..(NumLimbs + 1) |-> IF i <= NumLimbs THEN w[i] ELSE 0]
WideAdd(a, b) ==
  [i \in 1..(NumLimbs + 1) |-> (a[i] + b[i] + CarryInto(a, b, i)) % LimbBase]
WideTimes8(a) ==
  LET a2 == WideAdd(a, a) a4 == WideAdd(a2, a2) IN WideAdd(a4, a4)
WideLt(a, b) == LimbLess(a, b, NumLimbs + 1)
\* r = PUNCHCARD_HEADER_LEN + ceil(c / 8), said without dividing:
\* c <= 8 * (r - 48) < c + 8
IsHeaderPlusCeil8(c, r) ==
  LET r8 == WideTimes8(Wide(r))
      lo == WideAdd(Wide(c), Wide(U64(8 * PUNCHCARD_HEADER_LEN)))
      hi == WideAdd(lo, Wide(U64(8))) IN
  ~WideLt(r8, lo) /\ WideLt(r8, hi)

\* C10: space(capacity) returns None for every capacity above u64::MAX - 7 and
\* Some(48 + ceil(capacity/8)), never a wrapped value, for every other one.
C10_SpaceExactOrOverflow ==
  calc.ran =>
     IF U64Lt(U64MaxMinus(7), calc.capacity)
     THEN calc.out = None
     ELSE calc.out.some /\ IsHeaderPlusCeil8(calc.capacity, calc.out.val)

\* space(u64::MAX - 7), the largest capacity that fits, has been computed
C10_Witness ==
  /\ calc.ran
  /\ calc.capacity = U64MaxMinus(7)
  /\ calc.out.some

\* ------------------------------------------------------------ from_bytes() on its own
\* header words fed to from_bytes: the small ones around the buffer's size and
\* the ones around the overflow edge of bitset_len()
ParseWords ==
  {U64(n) : n \in 0..(8 * MaxParseBits + 1)} \cup {U64MaxMinus(k) : k \in 0..8}
\* where a buffer starts: on a multiple of the header's alignment, one byte
\* past one, and half way between two
ParseOffsets == {0, 1, HEADER_ALIGN \div 2}
\* buffers shorter than a header, and buffers with a header and a bitset
\* region of every length up to MaxParseBits, its bytes all 0 or all 255
ParseBuffers ==
  {[len |-> n, offset |-> o, header |-> ZeroHeader, bits |-> <<>>] :
      n \in {0, PUNCHCARD_HEADER_LEN - 1}, o \in ParseOffsets}
    \cup {[len |-> PUNCHCARD_HEADER_LEN + n,
           offset |-> o,
           header |-> PunchcardHeader("A", c, cl),
           bits |-> [i \in 1..n |-> fill]] :
            n \in 0..MaxParseBits, o \in ParseOffsets,
            c \in ParseWords, cl \in ParseWords, fill \in {0, 255}}

ParseInit ==
  /\ punchcard = ClosedAccount
  /\ lamports = [k \in Keys |-> InitialLamports]
  /\ last = Idle
  /\ \E d \in ParseBuffers : calc = [data |-> d, out |-> [err |-> "none"], ran |-> FALSE]

ParseBytes ==
  /\ ~calc.ran
  /\ calc' = [calc EXCEPT !.out = from_bytes(calc.data), !.ran = TRUE]
  /\ UNCHANGED <<punchcard, lamports, last>>

ParseNext == ParseBytes

ParseSpec == ParseInit /\ [][ParseNext]_vars

\* ------------------------------------------------------------ C11
\* n = ceil(c / 8), said without dividing: c <= 8 * n < c + 8
IsCeil8(c, n) ==
  LET n8 == WideTimes8(Wide(U64(n)))
      hi == WideAdd(Wide(c), Wide(U64(8))) IN
  ~WideLt(n8, Wide(c)) /\ WideLt(n8, hi)
\* the buffer is exactly space(header.capacity) bytes long
LengthIsSpace(data) ==
  LET sp == space(data.header.capacity) IN sp.some /\ sp.val = U64(data.len)
WellFormed(data) ==
  /\ data.len >= PUNCHCARD_HEADER_LEN
  /\ IsCeil8(data.header.capacity, data.len - PUNCHCARD_HEADER_LEN)
  /\ ~WideLt(Wide(data.header.capacity), Wide(data.header.claimed))

\* the header starts on a multiple of its alignment
Aligned(data) == data.offset % HEADER_ALIGN = 0

\* C11 as stated: from_bytes accepts a buffer exactly when it is at least a
\* header long, the bytes after the header number ceil(header.capacity/8) and
\* claimed <= capacity; a buffer whose length is not space(header.capacity),
\* or whose claimed exceeds capacity, is rejected whatever its other fields.
C11_AsStated ==
  calc.ran =>
     /\ (calc.out.err = Ok) <=> WellFormed(calc.data)
     /\ (calc.data.len >= PUNCHCARD_HEADER_LEN /\ ~LengthIsSpace(calc.data))
           => calc.out.err # Ok
     /\ (calc.data.len >= PUNCHCARD_HEADER_LEN
           /\ U64Lt(calc.data.header.capacity, calc.data.header.claimed))
           => calc.out.err # Ok

\* C11 (amended): from_bytes accepts a buffer exactly when it is at least a
\* header long, starts on a multiple of the header's alignment, the bytes
\* after the header number ceil(header.capacity/8) and claimed <= capacity; a
\* buffer whose length is not space(header.capacity), or whose claimed exceeds
\* capacity, is rejected whatever its other fields hold; an accepted buffer is
\* viewed as its own header and bitset.
C11_FromBytesAcceptsExactlyWellFormed ==
  calc.ran =>
     /\ (calc.out.err = Ok) <=> (WellFormed(calc.data) /\ Aligned(calc.data))
     /\ (calc.data.len >= PUNCHCARD_HEADER_LEN /\ ~LengthIsSpace(calc.data))
           => calc.out.err # Ok
     /\ (calc.data.len >= PUNCHCARD_HEADER_LEN
           /\ U64Lt(calc.data.header.capacity, calc.data.header.claimed))
           => calc.out.err # Ok
     /\ calc.out.err = Ok =>
           calc.out.card = [header |-> calc.data.header, bits |-> calc.data.bits]

\* a two-byte bitset with capacity 9 and claimed = capacity, on an aligned
\* address, has been accepted
C11_Witness ==
  /\ calc.ran
  /\ calc.out.err = Ok
  /\ Aligned(calc.data)
  /\ calc.data.header.capacity = U64(9)
  /\ calc.data.header.claimed = U64(9)
  /\ Len(calc.data.bits) = 2

\* the same buffer one byte further on has been rejected
C11_MisalignedRejected ==
  /\ calc.ran
  /\ calc.out.err = InvalidAccountData
  /\ ~Aligned(calc.data)
  /\ WellFormed(calc.data)
  /\ calc.data.header.capacity = U64(9)

\* ------------------------------------------------------------ C14
\* C14: every rejection by from_bytes is the structural error
\* InvalidAccountData, also for a header.capacity above u64::MAX - 7.
C14_RejectionIsStructural ==
  (calc.ran /\ calc.out.err # Ok) => calc.out.err = InvalidAccountData

\* ------------------------------------------------------------ C12
\* C12: while a record is live its claimed count is a number between 0 and its
\* capacity, and no invocation leaves a live record with a smaller claimed
\* count than it found.
C12_ClaimedBoundedAndMonotone ==
  /\ Live(punchcard) =>
        /\ FitsNat32(punchcard.data.header.claimed)
        /\ 0 <= ClaimedOf(punchcard)
        /\ ClaimedOf(punchcard) <= CapacityOf(punchcard)
        /\ ~U64Lt(punchcard.data.header.capacity, punchcard.data.header.claimed)
  /\ (last # Idle /\ Live(last.pre) /\ Live(punchcard)) =>
        ClaimedOf(punchcard) >= ClaimedOf(last.pre)

\* a Claim has raised claimed from a positive count to one slot short of capacity
C12_Witness ==
  /\ IsClaim /\ last.err = Ok
  /\ Live(punchcard)
  /\ ClaimedOf(last.pre) >= 1
  /\ ClaimedOf(punchcard) > ClaimedOf(last.pre)
  /\ ClaimedOf(punchcard) = CapacityOf(punchcard) - 1

\* ------------------------------------------------------------ C13
\* C13: no live record has claimed == capacity, whatever capacity Create
\* accepted, capacity 0 included.
C13_NoLiveRecordIsFull ==
  Live(punchcard) => punchcard.data.header.claimed # punchcard.data.header.capacity

\* ------------------------------------------------------------ C15
\* the indices before the first offender, as slots
AppliedPrefix == {SlotAt(j) : j \in 1..(FirstOffender - 1)}

\* C15: a Claim by the recorded authority whose batch has an offending index
\* returns the error of the first offender from the left, IndexOutOfBounds
\* when that index is at or past capacity (its bit is never consulted) and
\* AlreadyClaimed when it is in range and taken; the buffer it returns with
\* holds the indices before the first offender and nothing from the offender
\* on, and the ledger keeps none of it.
C15_FirstOffenderDecides ==
  (Authorized /\ ~CleanBatch) =>
     /\ last.err = ErrorOfFirstOffender
     /\ last.memory.data.len = last.pre.data.len
     /\ last.memory.data.header.capacity = last.pre.data.header.capacity
     /\ \A n \in BitPositions(last.pre) :
           SlotSet(last.memory, n) <=> (SlotSet(last.pre, n) \/ n \in AppliedPrefix)
     /\ ClaimedOf(last.memory) = ClaimedOf(last.pre) + (FirstOffender - 1)
     /\ RecordUnchanged

\* [a, b] with a already claimed and b past capacity: AlreadyClaimed
C15_Witness ==
  /\ Authorized
  /\ Len(last.indices) = 2
  /\ InRangeAt(1) /\ SlotSet(last.pre, SlotAt(1))
  /\ ~InRangeAt(2)
  /\ last.err = AlreadyClaimed

\* [b, a], the same two indices the other way round: IndexOutOfBounds
C15_ReverseOrder ==
  /\ Authorized
  /\ Len(last.indices) = 2
  /\ ~InRangeAt(1)
  /\ InRangeAt(2) /\ SlotSet(last.pre, SlotAt(2))
  /\ last.err = IndexOutOfBounds

\* ------------------------------------------------------------ C16
\* C16: a slot's bit that is set stays set in every later state of its record:
\* no step between two states in which the record is live clears a bit.
C16_ClaimedStaysClaimed ==
  [][(Live(punchcard) /\ Live(punchcard')) =>
        \A n \in BitPositions(punchcard) :
           SlotSet(punchcard, n) => SlotSet(punchcard', n)]_vars

\* a later Claim has gone through on a record that already had a bit set in
\* the same byte, and that bit is still set
C16_Witness ==
  /\ IsClaim /\ last.err = Ok
  /\ Live(punchcard)
  /\ \E n \in BitPositions(last.pre), m \in BitPositions(last.pre) :
        /\ n # m /\ n \div 8 = m \div 8
        /\ SlotSet(last.pre, n) /\ ~SlotSet(last.pre, m)
        /\ SlotSet(punchcard, n) /\ SlotSet(punchcard, m)

\* ------------------------------------------------------------ C17
SameIdentity(acct, before) ==
  /\ acct.data.header.capacity = before.data.header.capacity
  /\ acct.data.header.authority = before.data.header.authority

\* C17: no invocation changes the capacity or the authority of a live record:
\* a Claim that succeeds without closing it leaves both as they were, a Claim
\* that fails returns with both as they were in its buffer and the ledger
\* keeps the record whole, and a record stops being live only by being closed.
C17_CapacityAndAuthorityFixed ==
  /\ (last # Idle /\ Live(last.pre) /\ Live(punchcard)) =>
        SameIdentity(punchcard, last.pre)
  /\ (IsClaim /\ Live(last.pre) /\ last.err # Ok) =>
        /\ SameIdentity(last.memory, last.pre)
        /\ punchcard = last.pre
  /\ (last # Idle /\ Live(last.pre) /\ ~Live(punchcard)) =>
        /\ IsClaim /\ last.err = Ok
        /\ punchcard = ClosedAccount

\* a Claim has succeeded on a record of authority B that already had claims,
\* and the record is still live
C17_Witness ==
  /\ IsClaim /\ last.err = Ok
  /\ Live(punchcard)
  /\ ClaimedOf(last.pre) >= 1
  /\ ClaimedOf(punchcard) > ClaimedOf(last.pre)
  /\ punchcard.data.header.authority = "B"
  /\ CapacityOf(punchcard) >= 3

\* ------------------------------------------------------------ C18
\* C18: a Claim against an address whose record has been closed fails and
\* changes nothing, whoever signs and whatever the indices: a signed one fails
\* at the ownership check with IncorrectProgramId, before the buffer is parsed
\* (an unsigned one fails one check earlier), and record, buffer and balances
\* are as they were; the address stays closed until a Create succeeds on it.
C18_ClosureIsTerminal ==
  /\ (IsClaim /\ ~Live(last.pre)) =>
        /\ last.pre = ClosedAccount
        /\ last.err = (IF last.is_signer THEN IncorrectProgramId
                                         ELSE MissingRequiredSignature)
        /\ last.memory = last.pre
        /\ RecordUnchanged
  /\ (last # Idle /\ ~Live(last.pre) /\ Live(punchcard)) =>
        (IsCreate /\ last.err = Ok)

\* a signed Claim with the empty batch on a closed address: IncorrectProgramId
C18_Witness ==
  /\ IsClaim
  /\ last.pre = ClosedAccount
  /\ last.is_signer
  /\ last.indices = <<>>
  /\ last.err = IncorrectProgramId
  /\ punchcard = ClosedAccount

\* ------------------------------------------------------------ C19
SetBits(acct) == {n \in BitPositions(acct) : SlotSet(acct, n)}

\* C19: in a live record, and in the buffer a Claim returns with, claimed is
\* the number of bits set in the bitset.
C19_ClaimedCountsSetBits ==
  /\ Live(punchcard) => ClaimedOf(punchcard) = Cardinality(SetBits(punchcard))
  /\ (IsClaim /\ Live(last.memory)) =>
        ClaimedOf(last.memory) = Cardinality(SetBits(last.memory))

\* a live record with bits set in two bytes
C19_Witness ==
  /\ Live(punchcard)
  /\ ClaimedOf(punchcard) >= 2
  /\ \E n \in SetBits(punchcard), m \in SetBits(punchcard) : n \div 8 # m \div 8

\* ------------------------------------------------------------ C20
\* C20: in a live record, and in the buffer a Claim returns with, no bit at a
\* position at or past capacity (the padding of the last byte) is set.
C20_PaddingBitsStayClear ==
  /\ Live(punchcard) => \A n \in SetBits(punchcard) : n < CapacityOf(punchcard)
  /\ (IsClaim /\ Live(last.memory)) =>
        \A n \in SetBits(last.memory) : n < CapacityOf(last.memory)

\* a live record whose last byte has padding, with its last slot claimed
C20_Witness ==
  /\ Live(punchcard)
  /\ CapacityOf(punchcard) % 8 # 0
  /\ SlotSet(punchcard, CapacityOf(punchcard) - 1)
  /\ IsClaim /\ last.err = Ok

====
